---- MODULE Spec2Model ----
(***************************************************************************)
(* Model of translateQuests.py: the formatting-preserving translation of   *)
(* title / subtitle / description fields of .snbt quest files, run by a   *)
(* thread pool with a shared lru_cache of translator handles.              *)
(* Texts and paths are sequences of one-character strings.                 *)
(***************************************************************************)
EXTENDS Integers, Sequences, FiniteSets, TLC

(* ------------------------------ bounds --------------------------------- *)
MaxFiles == 3
MaxWorkers == 2
MaxFrags == 3

(* ------------------------- program constants --------------------------- *)
maxsize == 4

(* ------------------------- character classes --------------------------- *)
Digits == <<"0","1","2","3","4","5","6","7","8","9">>

AlNum ==
  {"0","1","2","3","4","5","6","7","8","9",
   "a","b","c","d","e","f","g","h","i","j","k","l","m",
   "n","o","p","q","r","s","t","u","v","w","x","y","z",
   "A","B","C","D","E","F","G","H","I","J","K","L","M",
   "N","O","P","Q","R","S","T","U","V","W","X","Y","Z"}

Whitespace == {" ", "\t", "\n", "\r", "\f"}

(* ------------------------- str primitives ------------------------------ *)
StartsWithAt(s, i, p) ==
  /\ i >= 1
  /\ i + Len(p) - 1 <= Len(s)
  /\ \A k \in 1..Len(p) : s[i + k - 1] = p[k]

\* str.find(p, from): least index >= from where p occurs, 0 when absent
Find(s, p, from) ==
  LET hits == {i \in from..Len(s) : StartsWithAt(s, i, p)}
  IN IF hits = {} THEN 0 ELSE CHOOSE i \in hits : \A j \in hits : i <= j

RECURSIVE ReplaceFrom(_, _, _, _, _)
ReplaceFrom(s, old, new, count, i) ==
  IF count = 0 THEN SubSeq(s, i, Len(s))
  ELSE LET j == Find(s, old, i)
       IN IF j = 0 THEN SubSeq(s, i, Len(s))
          ELSE SubSeq(s, i, j - 1) \o new
               \o ReplaceFrom(s, old, new, count - 1, j + Len(old))

\* str.replace(old, new, count); count = -1 replaces every occurrence
StrReplace(s, old, new, count) == ReplaceFrom(s, old, new, count, 1)

RECURSIVE ToStr(_)
ToStr(n) ==
  IF n < 10 THEN <<Digits[n + 1]>>
  ELSE ToStr(n \div 10) \o <<Digits[(n % 10) + 1]>>

\* f"<<<{count}>>>"
Placeholder(n) == <<"<","<","<">> \o ToStr(n) \o <<">",">",">">>

(* ------------------- control codes: &[0-9a-zA-Z]+ ---------------------- *)
RECURSIVE RunEnd(_, _)
RunEnd(s, i) ==
  IF i + 1 <= Len(s) /\ s[i + 1] \in AlNum THEN RunEnd(s, i + 1) ELSE i

\* index of the last character of a code starting at i, 0 when none starts
CodeEnd(s, i) ==
  IF i + 1 <= Len(s) /\ s[i] = "&" /\ s[i + 1] \in AlNum
  THEN RunEnd(s, i + 1) ELSE 0

RECURSIVE FindCodesFrom(_, _)
FindCodesFrom(s, i) ==
  IF i > Len(s) THEN <<>>
  ELSE LET e == CodeEnd(s, i)
       IN IF e = 0 THEN FindCodesFrom(s, i + 1)
          ELSE <<SubSeq(s, i, e)>> \o FindCodesFrom(s, e + 1)

\* re.findall(r'(&[0-9a-zA-Z]+)', text)
FindCodes(s) == FindCodesFrom(s, 1)

RECURSIVE SubCodesFrom(_, _, _)
SubCodesFrom(s, i, count) ==
  IF i > Len(s) THEN <<>>
  ELSE LET e == CodeEnd(s, i)
       IN IF e = 0 THEN <<s[i]>> \o SubCodesFrom(s, i + 1, count)
          ELSE Placeholder(count) \o SubCodesFrom(s, e + 1, count + 1)

\* re.sub(r'(&[0-9a-zA-Z]+)', repl, text) with repl's counter starting at 1
CleanText(s) == SubCodesFrom(s, 1, 1)

\* variant: every placeholder is given the first code
RestoreOneFirstCode(t, i, codes) == StrReplace(t, Placeholder(i), codes[1], 1)

\* one iteration of the restore loop
RestoreOne(t, i, codes) == StrReplace(t, Placeholder(i), codes[i], 1)

RECURSIVE RestoreFrom(_, _, _)
RestoreFrom(t, i, codes) ==
  IF i > Len(codes) THEN t
  ELSE RestoreFrom(RestoreOne(t, i, codes), i + 1, codes)

RECURSIVE RestoreUntilMissing(_, _, _)
RestoreUntilMissing(t, i, codes) ==
  IF i > Len(codes) \/ Find(t, Placeholder(i), 1) = 0 THEN t
  ELSE RestoreUntilMissing(RestoreOne(t, i, codes), i + 1, codes)

\* variant: the loop gives up at the first placeholder it does not find
RestoreStopAtMissing(t, codes) == RestoreUntilMissing(t, 1, codes)

\* for i, code in enumerate(codes, start=1): translated.replace(..., 1)
Restore(t, codes) == RestoreFrom(t, 1, codes)

(* --------------------------- field patterns ---------------------------- *)
K_title == <<"t","i","t","l","e",":">>
K_subtitle == <<"s","u","b">> \o K_title
K_description == <<"d","e","s","c","r","i","p","t","i","o","n",":">>

\* the three re.sub passes of process_file, in order
Patterns ==
  << [key |-> K_title, open |-> "\"", close |-> "\"", dotall |-> FALSE],
     [key |-> K_subtitle, open |-> "\"", close |-> "\"", dotall |-> FALSE],
     [key |-> K_description, open |-> "[", close |-> "]", dotall |-> TRUE] >>

NoMatch == [start |-> 0, s2 |-> 0, e2 |-> 0, end |-> 0]

RECURSIVE SkipSpace(_, _)
SkipSpace(s, i) ==
  IF i <= Len(s) /\ s[i] \in Whitespace THEN SkipSpace(s, i + 1) ELSE i

\* the pattern (key\s*open)(.*?)(close) tried at one start position
MatchAt(s, st, pat) ==
  IF ~StartsWithAt(s, st, pat.key) THEN NoMatch
  ELSE LET q == SkipSpace(s, st + Len(pat.key))
       IN IF q > Len(s) \/ s[q] # pat.open THEN NoMatch
          ELSE LET e == Find(s, <<pat.close>>, q + 1)
               IN IF e = 0 THEN NoMatch
                  ELSE IF ~pat.dotall
                          /\ \E k \in (q + 1)..(e - 1) : s[k] = "\n"
                       THEN NoMatch
                       ELSE [start |-> st, s2 |-> q + 1,
                             e2 |-> e - 1, end |-> e]

\* leftmost match at or after pos
Search(s, pos, pat) ==
  LET hits == {st \in pos..Len(s) : MatchAt(s, st, pat) # NoMatch}
  IN IF hits = {} THEN NoMatch
     ELSE MatchAt(s, CHOOSE i \in hits : \A j \in hits : i <= j, pat)

\* lambda m: f'{m.group(1)}{safe_translate(m.group(2), lang_to)}{m.group(3)}'
Group1(s, m) == SubSeq(s, m.start, m.s2 - 1)
Group2(s, m) == SubSeq(s, m.s2, m.e2)
Group3(s, m) == SubSeq(s, m.e2 + 1, m.end)
\* variant: the lambda forgets the closing delimiter
ReplacementNoClose(s, m, body) == Group1(s, m) \o body
Replacement(s, m, body) == Group1(s, m) \o body \o Group3(s, m)

(* ---------------------------- output path ------------------------------ *)
T_chapters == <<"c","h","a","p","t","e","r","s">>
T_translate == T_chapters \o <<"-","t","r","a","n","s","l","a","t","e">>

\* variant: only the first occurrence is replaced
OutputPathFirst(p) == StrReplace(p, T_chapters, T_translate, 1)

\* str(file_path).replace('chapters', 'chapters-translate')
OutputPath(p) == StrReplace(p, T_chapters, T_translate, -1)

(* ------------------------ translation model ---------------------------- *)
\* The external MarianMT model is a deterministic function of its input.
\* Three stand-ins: the identity, one that loses placeholder 2, and one
\* that rewrites the text around its input.
Models == {"identity", "drop2", "mark"}

\* tokenizer(...) / model.generate(...) / tokenizer.decode(...)
Translate(mdl, text) ==
  CASE mdl = "identity" -> text
    [] mdl = "drop2" -> StrReplace(text, Placeholder(2), <<>>, 1)
    [] OTHER -> <<"Z">> \o text \o <<"\"">>

(* ------------------------------ inputs --------------------------------- *)
Ext == <<".","s","n","b","t">>
D_q == <<"q">>
D_chapters == D_q \o <<"/">> \o T_chapters
P_quest == D_chapters \o <<"/">> \o T_chapters \o Ext
P_prev == D_q \o <<"/">> \o T_translate \o <<"/">> \o T_translate \o Ext
P_b == D_q \o <<"/","b">> \o Ext
P_txt == D_chapters \o <<"/","n",".","t","x","t">>

\* a quest file, the output an earlier run derived from it, a file outside
\* any 'chapters' directory, and a file that is not a quest file
PathUniverse == {P_quest, P_prev, P_b, P_txt}
Directories == {D_q, D_chapters}
Langs == {"ru"}

Q == "\""
F_title == K_title \o <<" ", Q, "a", Q>>
PipeTexts == {F_title}

BodyFrags == {<<"a">>, <<"&","4">>, <<"&","e">>, Placeholder(1), <<Q>>, <<"\n">>}

RECURSIVE Flatten(_)
Flatten(ss) == IF ss = <<>> THEN <<>> ELSE Head(ss) \o Flatten(Tail(ss))

Bodies == {Flatten(f) : f \in UNION {[1..n -> BodyFrags] : n \in 0..MaxFrags}}

Shapes ==
  { [pre |-> K_title \o <<" ", Q>>, post |-> <<Q>>],
    [pre |-> K_subtitle \o <<" ", Q>>, post |-> <<Q, "\n">>],
    [pre |-> K_description \o <<" ", "[">>, post |-> <<"]">>],
    [pre |-> K_description \o <<"[">> \o K_title \o <<Q>>, post |-> <<Q, "]">>] }

FileTexts == {sh.pre \o b \o sh.post : sh \in Shapes, b \in Bodies}

(* ------------------------------- state --------------------------------- *)
VARIABLES
  fs,         \* the file system: path -> text of the file
  directory,  \* main(): the directory entered by the operator
  lang_to,    \* main(): the target language entered by the operator
  model,      \* which translation the external model computes
  files,      \* process_all_files: the discovered paths, in rglob order
  mainpc,     \* position of the thread running process_all_files
  queue,      \* the executor's work queue (indices into files)
  task,       \* per submitted process_file call: its locals and position
  yielded,    \* futures already returned by as_completed
  cache,      \* lru_cache of get_translator, least recently used first
  heap        \* the (model, tokenizer) objects constructed so far

vars == <<fs, directory, lang_to, model, files, mainpc, queue, task,
          yielded, cache, heap>>

NoHandle == [lang |-> "", by |-> 0]

NewTask(p) ==
  [path |-> p, pc |-> "new", content |-> <<>>, pass |-> 1, pos |-> 1,
   out |-> <<>>, m |-> NoMatch, codes |-> <<>>, cleaned |-> <<>>,
   handle |-> NoHandle, translated |-> <<>>, output_path |-> <<>>,
   log |-> <<>>]

Tasks == DOMAIN task
Finished(t) == task[t].pc \in {"done", "failed"}
Running == {t \in Tasks : task[t].pc \notin {"new", "queued", "done", "failed"}}

InitCommon ==
  /\ lang_to \in Langs
  /\ files = <<>>
  /\ mainpc = "discover"
  /\ queue = <<>>
  /\ task = <<>>
  /\ yielded = {}
  /\ cache = <<>>
  /\ heap = {}

\* a directory tree of up to MaxFiles files, all runs of the pipeline
Init ==
  /\ InitCommon
  /\ directory \in Directories
  /\ model = "identity"
  /\ \E S \in SUBSET PathUniverse :
       /\ S # {}
       /\ Cardinality(S) <= MaxFiles
       /\ fs \in [S -> PipeTexts]

\* one quest file with any of the bounded field texts, any translation
InitText ==
  /\ InitCommon
  /\ directory = D_chapters
  /\ model \in Models
  /\ fs \in [{P_quest} -> FileTexts]

(* ------------------------- process_all_files --------------------------- *)
EndsWith(s, p) == Len(s) >= Len(p) /\ StartsWithAt(s, Len(s) - Len(p) + 1, p)

\* Path(directory).rglob("*.snbt")
RGlob(dir) ==
  {p \in DOMAIN fs : StartsWithAt(p, 1, dir \o <<"/">>) /\ EndsWith(p, Ext)}

Orders(S) ==
  {o \in [1..Cardinality(S) -> S] : \A i, j \in DOMAIN o : i # j => o[i] # o[j]}

Discover ==
  /\ mainpc = "discover"
  /\ \E o \in Orders(RGlob(directory)) :
       /\ files' = o
       /\ task' = [i \in DOMAIN o |-> NewTask(o[i])]
       /\ mainpc' = IF o = <<>> THEN "collect" ELSE "submit"
  /\ UNCHANGED <<fs, directory, lang_to, model, queue, yielded, cache, heap>>

\* one iteration of the submit loop: executor.submit(process_file, ...)
Submit ==
  /\ mainpc = "submit"
  /\ LET i == CHOOSE k \in Tasks :
                /\ task[k].pc = "new"
                /\ \A j \in Tasks : task[j].pc = "new" => k <= j
     IN /\ task' = [task EXCEPT ![i].pc = "queued"]
        /\ queue' = Append(queue, i)
        /\ mainpc' = IF i = Len(files) THEN "collect" ELSE "submit"
  /\ UNCHANGED <<fs, directory, lang_to, model, files, yielded, cache, heap>>

\* as_completed yields a finished future and future.result() returns
CollectResult(t) ==
  /\ mainpc = "collect"
  /\ t \notin yielded
  /\ task[t].pc = "done"
  /\ yielded' = yielded \cup {t}
  /\ UNCHANGED <<fs, directory, lang_to, model, files, mainpc, queue, task,
                 cache, heap>>

\* as_completed yields a failed future and future.result() raises
CollectRaise(t) ==
  /\ mainpc = "collect"
  /\ t \notin yielded
  /\ task[t].pc = "failed"
  /\ mainpc' = "exit_raise"
  /\ UNCHANGED <<fs, directory, lang_to, model, files, queue, task, yielded,
                 cache, heap>>

\* the for loop over as_completed is exhausted
CollectEnd ==
  /\ mainpc = "collect"
  /\ yielded = Tasks
  /\ mainpc' = "exit_ok"
  /\ UNCHANGED <<fs, directory, lang_to, model, files, queue, task, yielded,
                 cache, heap>>

\* variant: shutdown(wait=False), the workers are not joined
ShutdownNoWait == TRUE

\* ThreadPoolExecutor.__exit__: shutdown(wait=True) joins the workers
ShutdownWait == \A t \in Tasks : Finished(t)

ExecutorExit ==
  /\ mainpc \in {"exit_ok", "exit_raise"}
  /\ ShutdownWait
  /\ mainpc' = IF mainpc = "exit_ok" THEN "returned" ELSE "raised"
  /\ UNCHANGED <<fs, directory, lang_to, model, files, queue, task, yielded,
                 cache, heap>>

(* ------------------------- worker threads ------------------------------ *)
Frame == <<directory, lang_to, model, files, mainpc, yielded>>

\* a pool thread takes the next work item off the queue
Start(t) ==
  /\ queue # <<>>
  /\ t = Head(queue)
  /\ Cardinality(Running) < MaxWorkers
  /\ queue' = Tail(queue)
  /\ task' = [task EXCEPT ![t].pc = "open"]
  /\ UNCHANGED <<fs, cache, heap>>
  /\ UNCHANGED Frame

\* with open(file_path, 'r') ...: content = file.read()
Read(t) ==
  /\ task[t].pc = "open"
  /\ task[t].path \in DOMAIN fs
  /\ task' = [task EXCEPT ![t].pc = "search",
                          ![t].content = fs[task[t].path],
                          ![t].pass = 1, ![t].pos = 1, ![t].out = <<>>]
  /\ UNCHANGED <<fs, queue, cache, heap>>
  /\ UNCHANGED Frame

\* the open/read raises (unreadable file)
ReadFail(t) ==
  /\ task[t].pc = "open"
  /\ task' = [task EXCEPT ![t].pc = "failed"]
  /\ UNCHANGED <<fs, queue, cache, heap>>
  /\ UNCHANGED Frame

\* re.sub finds the next match of the current pass; the lambda calls
\* safe_translate, which extracts the codes and calls translate_to
FieldMatch(t) ==
  /\ task[t].pc = "search"
  /\ LET m == Search(task[t].content, task[t].pos, Patterns[task[t].pass])
         body == Group2(task[t].content, m)
     IN /\ m # NoMatch
        /\ task' = [task EXCEPT ![t].pc = "lookup", ![t].m = m,
                                ![t].codes = FindCodes(body),
                                ![t].cleaned = CleanText(body)]
  /\ UNCHANGED <<fs, queue, cache, heap>>
  /\ UNCHANGED Frame

\* re.sub finds no further match: the pass returns the new text
PassEnd(t) ==
  /\ task[t].pc = "search"
  /\ Search(task[t].content, task[t].pos, Patterns[task[t].pass]) = NoMatch
  /\ task' = [task EXCEPT
       ![t].content = task[t].out
                      \o SubSeq(task[t].content, task[t].pos,
                                Len(task[t].content)),
       ![t].out = <<>>, ![t].pos = 1,
       ![t].pass = IF task[t].pass = Len(Patterns) THEN task[t].pass
                   ELSE task[t].pass + 1,
       ![t].pc = IF task[t].pass = Len(Patterns) THEN "write" ELSE "search"]
  /\ UNCHANGED <<fs, queue, cache, heap>>
  /\ UNCHANGED Frame

(* ---------------- get_translator under @lru_cache(maxsize=4) ----------- *)
CacheHas(key) == \E i \in DOMAIN cache : cache[i].key = key
CacheIndex(key) == CHOOSE i \in DOMAIN cache : cache[i].key = key

RemoveAt(q, i) == SubSeq(q, 1, i - 1) \o SubSeq(q, i + 1, Len(q))

\* a hit returns the cached result and makes the entry most recently used
CacheHit(t) ==
  /\ task[t].pc = "lookup"
  /\ CacheHas(lang_to)
  /\ LET i == CacheIndex(lang_to)
     IN /\ task' = [task EXCEPT ![t].pc = "generate",
                                ![t].handle = cache[i].val]
        /\ cache' = Append(RemoveAt(cache, i), cache[i])
  /\ UNCHANGED <<fs, queue, heap>>
  /\ UNCHANGED Frame

\* a miss calls the wrapped function; the cache is not locked meanwhile
CacheMiss(t) ==
  /\ task[t].pc = "lookup"
  /\ ~CacheHas(lang_to)
  /\ task' = [task EXCEPT ![t].pc = "construct"]
  /\ UNCHANGED <<fs, queue, cache, heap>>
  /\ UNCHANGED Frame

\* the result is stored unless the key was added during the call
CacheStore(c, key, val) ==
  IF \E i \in DOMAIN c : c[i].key = key THEN c
  ELSE IF Len(c) >= maxsize THEN Append(Tail(c), [key |-> key, val |-> val])
  ELSE Append(c, [key |-> key, val |-> val])

\* from_pretrained returns: a new (model, tokenizer) is built and returned
Construct(t) ==
  /\ task[t].pc = "construct"
  /\ LET h == [lang |-> lang_to, by |-> t]
     IN /\ heap' = heap \cup {h}
        /\ cache' = CacheStore(cache, lang_to, h)
        /\ task' = [task EXCEPT ![t].pc = "generate", ![t].handle = h]
  /\ UNCHANGED <<fs, queue>>
  /\ UNCHANGED Frame

\* from_pretrained raises (no model for the language)
ConstructFail(t) ==
  /\ task[t].pc = "construct"
  /\ task' = [task EXCEPT ![t].pc = "failed"]
  /\ UNCHANGED <<fs, queue, cache, heap>>
  /\ UNCHANGED Frame

(* ------------------- translate_to / safe_translate --------------------- *)
\* translate_to: generate, decode and print the original and the result
Generate(t) ==
  /\ task[t].pc = "generate"
  /\ task' = [task EXCEPT
       ![t].pc = "restore",
       ![t].translated = Translate(model, task[t].cleaned),
       ![t].log = Append(task[t].log, task[t].cleaned)]
  /\ UNCHANGED <<fs, queue, cache, heap>>
  /\ UNCHANGED Frame

\* the restore loop of safe_translate
RestoreCodes(t) ==
  /\ task[t].pc = "restore"
  /\ task' = [task EXCEPT
       ![t].pc = "emit",
       ![t].translated = Restore(task[t].translated, task[t].codes)]
  /\ UNCHANGED <<fs, queue, cache, heap>>
  /\ UNCHANGED Frame

\* safe_translate returns; re.sub appends the text before the match and
\* the lambda's result, and goes on after the match
Emit(t) ==
  /\ task[t].pc = "emit"
  /\ task' = [task EXCEPT
       ![t].pc = "search",
       ![t].out = task[t].out
                  \o SubSeq(task[t].content, task[t].pos, task[t].m.start - 1)
                  \o Replacement(task[t].content, task[t].m,
                                 task[t].translated),
       ![t].pos = task[t].m.end + 1,
       ![t].m = NoMatch, ![t].codes = <<>>, ![t].cleaned = <<>>,
       ![t].translated = <<>>]
  /\ UNCHANGED <<fs, queue, cache, heap>>
  /\ UNCHANGED Frame

(* ----------------------- process_file: output -------------------------- *)
WriteFile(f, p, text) ==
  [q \in DOMAIN f \cup {p} |-> IF q = p THEN text ELSE f[q]]

\* output_path = ...; os.makedirs(...); open(output_path, 'w'); write
Write(t) ==
  /\ task[t].pc = "write"
  /\ LET op == OutputPath(task[t].path)
     IN /\ fs' = WriteFile(fs, op, task[t].content)
        /\ task' = [task EXCEPT ![t].pc = "done", ![t].output_path = op]
  /\ UNCHANGED <<queue, cache, heap>>
  /\ UNCHANGED Frame

\* makedirs / open / write raises (unwritable destination)
WriteFail(t) ==
  /\ task[t].pc = "write"
  /\ task' = [task EXCEPT ![t].pc = "failed"]
  /\ UNCHANGED <<fs, queue, cache, heap>>
  /\ UNCHANGED Frame

Next ==
  \/ Discover
  \/ Submit
  \/ CollectEnd
  \/ ExecutorExit
  \/ \E t \in Tasks : CollectResult(t)
  \/ \E t \in Tasks : CollectRaise(t)
  \/ \E t \in Tasks : Start(t)
  \/ \E t \in Tasks : Read(t)
  \/ \E t \in Tasks : ReadFail(t)
  \/ \E t \in Tasks : FieldMatch(t)
  \/ \E t \in Tasks : PassEnd(t)
  \/ \E t \in Tasks : CacheHit(t)
  \/ \E t \in Tasks : CacheMiss(t)
  \/ \E t \in Tasks : Construct(t)
  \/ \E t \in Tasks : ConstructFail(t)
  \/ \E t \in Tasks : Generate(t)
  \/ \E t \in Tasks : RestoreCodes(t)
  \/ \E t \in Tasks : Emit(t)
  \/ \E t \in Tasks : Write(t)
  \/ \E t \in Tasks : WriteFail(t)

Spec == Init /\ [][Next]_vars
SpecText == InitText /\ [][Next]_vars

(* ============================== claims ================================= *)
Occurrences(s, p) == Cardinality({i \in 1..Len(s) : StartsWithAt(s, i, p)})

(* ---- C1 ---- *)
\* C1: when several workers call translate_to concurrently for a language
\* that is not cached yet, get_translator's body runs once and every call
\* uses that one handle.
C1_SingleConstruction ==
  /\ \A l \in Langs : Cardinality({h \in heap : h.lang = l}) <= 1
  /\ \A t1, t2 \in Tasks :
       (task[t1].handle # NoHandle /\ task[t2].handle # NoHandle)
         => task[t1].handle = task[t2].handle

(* ---- C2 ---- *)
\* C2: process_all_files returns or raises only after every submitted task
\* has finished; a failed task cancels no other task (each one that did not
\* itself raise has written its output), and a failure reaches the caller
\* only then.
C2_WaitsForAllTasks ==
  mainpc \in {"returned", "raised"} =>
    /\ \A t \in Tasks : Finished(t)
    /\ \A t \in Tasks :
         task[t].pc = "done" =>
           /\ task[t].output_path \in DOMAIN fs
           /\ fs[task[t].output_path] = task[t].content
    /\ mainpc = "returned" => \A t \in Tasks : task[t].pc = "done"
    /\ mainpc = "raised" => \E t \in Tasks : task[t].pc = "failed"

C2_Witness ==
  /\ mainpc = "raised"
  /\ \E t1, t2 \in Tasks :
       /\ task[t1].pc = "failed"
       /\ task[t2].pc = "done"
       /\ t2 \notin yielded

(* ---- C3 ---- *)
\* C3: no worker writes a path that another worker of the same run reads
\* or writes, so every file's result is independent of the interleaving.
C3_WorkersIndependent ==
  \A t1, t2 \in Tasks :
    (t1 # t2 /\ task[t1].pc = "done") =>
      /\ task[t1].output_path # task[t2].path
      /\ task[t2].pc = "done" =>
           task[t1].output_path # task[t2].output_path

(* ---- C4 ---- *)
\* C4: process_file never writes the path it read, so the source file keeps
\* its content.
C4_NeverInPlace ==
  \A t \in Tasks :
    task[t].pc = "done" => task[t].output_path # task[t].path

(* ---- C8 ---- *)
\* C8 as stated: only the first occurrence of 'chapters' in the path is
\* replaced by 'chapters-translate'.
C8_FirstOccurrenceOnly ==
  \A t \in Tasks :
    task[t].pc = "done" =>
      task[t].output_path = StrReplace(task[t].path, T_chapters, T_translate, 1)

\* C8 amended: every occurrence of 'chapters' in the path is replaced by
\* 'chapters-translate': the output has as many 'chapters-translate' as the
\* input has 'chapters', no other 'chapters', and undoing the rename gives
\* the input path back.
C8_EveryOccurrence ==
  \A t \in Tasks :
    task[t].pc = "done" =>
      LET p == task[t].path
          o == task[t].output_path
      IN /\ Occurrences(o, T_translate) = Occurrences(p, T_chapters)
         /\ Occurrences(o, T_chapters) = Occurrences(p, T_chapters)
         /\ Len(o) = Len(p) + Occurrences(p, T_chapters)
                              * (Len(T_translate) - Len(T_chapters))
         /\ StrReplace(o, T_translate, T_chapters, -1) = p

C8_Witness ==
  \E t \in Tasks :
    /\ task[t].pc = "done"
    /\ Occurrences(task[t].path, T_chapters) = 2
    /\ Occurrences(task[t].output_path, T_translate) = 2

(* ---- C5 ---- *)
\* the body safe_translate is working on, and whether it already holds the
\* text of a placeholder that the extraction is going to hand out
Body(t) == Group2(task[t].content, task[t].m)
HasPlaceholderText(s) ==
  \E i \in 1..Len(FindCodes(s)) : Find(s, Placeholder(i), 1) # 0

\* C5 as stated: with a translation that returns its input, safe_translate
\* returns every body unchanged.
C5_LosslessAnyBody ==
  \A t \in Tasks :
    (model = "identity" /\ task[t].pc = "emit") => task[t].translated = Body(t)

\* C5 amended: with a translation that returns its input, safe_translate
\* returns unchanged every body that does not already contain the text of one
\* of its own placeholders, and a file whose text contains none is written
\* with the text that was read.
C5_LosslessWithoutPlaceholderText ==
  \A t \in Tasks :
    /\ (model = "identity" /\ task[t].pc = "emit"
        /\ ~HasPlaceholderText(Body(t)))
         => task[t].translated = Body(t)
    /\ (model = "identity" /\ task[t].pc = "done"
        /\ task[t].output_path # task[t].path
        /\ ~HasPlaceholderText(fs[task[t].path]))
         => fs[task[t].output_path] = fs[task[t].path]

C5_Witness ==
  \E t \in Tasks :
    /\ model = "identity"
    /\ task[t].pc = "emit"
    /\ Len(task[t].codes) >= 2
    /\ task[t].codes[1] # task[t].codes[2]
    /\ ~HasPlaceholderText(Body(t))
    /\ task[t].translated = Body(t)

(* ---- C6 ---- *)
InsideDescription(text, i) ==
  \E st \in 1..Len(text) :
    LET d == MatchAt(text, st, Patterns[3])
    IN d # NoMatch /\ d.s2 <= i /\ i <= d.e2

\* C6: the title pass never matches text that lies inside the body of a
\* description field.
C6_FieldIsolation ==
  \A t \in Tasks :
    (task[t].pc = "lookup" /\ task[t].pass = 1)
      => ~InsideDescription(task[t].content, task[t].m.start)

(* ---- C7 ---- *)
RECURSIVE DropCodeFrom(_, _, _, _)
DropCodeFrom(s, i, n, k) ==
  IF i > Len(s) THEN <<>>
  ELSE LET e == CodeEnd(s, i)
       IN IF e = 0 THEN <<s[i]>> \o DropCodeFrom(s, i + 1, n, k)
          ELSE (IF n = k THEN <<>> ELSE SubSeq(s, i, e))
               \o DropCodeFrom(s, e + 1, n + 1, k)

\* the text s without its k-th control code
DropCode(s, k) == DropCodeFrom(s, 1, 1, k)

\* C7: the restore loop always completes; it consumes at most the first
\* occurrence of each placeholder 1..n; and when the translation lost
\* placeholder 2 the result is the body without its second code, every other
\* code back in its own place.
C7_RestoreTolerant ==
  [][\A t \in Tasks :
       task[t].pc = "restore" /\ task'[t] # task[t] =>
         /\ task'[t].pc = "emit"
         /\ \A i \in 1..Len(task[t].codes) :
              Occurrences(task'[t].translated, Placeholder(i)) =
                IF Occurrences(task[t].translated, Placeholder(i)) = 0 THEN 0
                ELSE Occurrences(task[t].translated, Placeholder(i)) - 1
         /\ (model = "drop2" /\ ~HasPlaceholderText(Body(t)))
              => task'[t].translated = DropCode(Body(t), 2)]_vars

C7_Witness ==
  \E t \in Tasks :
    /\ model = "drop2"
    /\ task[t].pc = "emit"
    /\ Len(task[t].codes) = 3
    /\ ~HasPlaceholderText(Body(t))
    /\ task[t].translated = task[t].codes[1] \o task[t].codes[3]

(* ---- C9 ---- *)
\* C9: in every pass, whatever the translation returns, re.sub copies the
\* text before a match, the match's leading and trailing delimiter and the
\* text after the last match verbatim; only the captured body is replaced.
C9_FramePreserved ==
  [][\A t \in Tasks :
       /\ (task[t].pc = "emit" /\ task'[t] # task[t]) =>
            LET c == task[t].content
                b1 == task[t].m.s2
                b2 == task[t].m.e2
                np == task'[t].pos
            IN /\ task'[t].content = c
               /\ np > b2 /\ np <= Len(c) + 1
               /\ c[np - 1] = Patterns[task[t].pass].close
               /\ task'[t].out = task[t].out
                                 \o SubSeq(c, task[t].pos, b1 - 1)
                                 \o task[t].translated
                                 \o SubSeq(c, b2 + 1, np - 1)
       /\ (task[t].pc = "search" /\ task'[t].pc \in {"search", "write"}) =>
            task'[t].content = task[t].out
                               \o SubSeq(task[t].content, task[t].pos,
                                         Len(task[t].content))
       /\ (task[t].pc = "search" /\ task'[t].pc = "lookup") =>
            /\ task'[t].content = task[t].content
            /\ task'[t].out = task[t].out
            /\ task'[t].pos = task[t].pos
            /\ task'[t].m.start >= task[t].pos]_vars

C9_Witness ==
  \E t \in Tasks :
    /\ model = "mark"
    /\ task[t].pc = "write"
    /\ task[t].content # fs[task[t].path]
    /\ Len(task[t].log) >= 2

(* ---- C10 ---- *)
FieldStarts(text) ==
  {st \in 1..Len(text) :
     \/ MatchAt(text, st, Patterns[2]) # NoMatch
     \/ MatchAt(text, st, Patterns[3]) # NoMatch
     \/ /\ MatchAt(text, st, Patterns[1]) # NoMatch
        /\ ~(st > 3 /\ MatchAt(text, st - 3, Patterns[2]) # NoMatch)}

\* C10: every field body is submitted to the translation exactly once; the
\* title pass does not match the tail of a subtitle field.
C10_TranslatedOnce ==
  \A t \in Tasks :
    /\ (task[t].pc = "lookup" /\ task[t].pass = 1) =>
         ~(/\ task[t].m.start > 3
           /\ MatchAt(task[t].content, task[t].m.start - 3, Patterns[2])
                # NoMatch)
    /\ (task[t].pc = "done" /\ task[t].output_path # task[t].path) =>
         Len(task[t].log) = Cardinality(FieldStarts(fs[task[t].path]))
====
